---- MODULE Spec2Model ----
(***************************************************************************)
(* A model of dts-generator (src/index.ts, and the compiled src/index.js   *)
(* where the two differ): the tree rewriter processTree, the declaration   *)
(* writer and the run of generate().                                       *)
(*                                                                         *)
(* Strings are sequences of one-character strings.                         *)
(***************************************************************************)
EXTENDS Integers, Sequences, FiniteSets, TLC

\* F applied to the value v, which is computed once
With(v, F(_)) == F(v)

Min(a, b) == IF a < b THEN a ELSE b

Max(a, b) == IF a < b THEN b ELSE a

(***************************************************************************)
(* Bounds of the model.                                                    *)
(***************************************************************************)
\* the number of source files program.getSourceFiles() reports in one run
MaxFiles == 2

\* the length of the text processTree is applied to, and the nodes of its tree
MaxText == 3

MaxNodes == 4

\* the number of top-level statements of a declaration file
MaxStmts == 2

VARIABLES
    \* ---- one run of generate() ----
    osPlatform,   \* "posix" or "win32": which pathUtil the process has
    build,        \* "ts": src/index.ts, "js": the compiled src/index.js
    pc,           \* where the run is
    opts,         \* what generate() derived from its options
    reported,     \* program.getSourceFiles(), as records [fileName]
    idx,          \* the index of the source file the loop handles next
    sink,         \* the output stream: [opened, ended, errorEvent, closeEvent]
    output,       \* what was written to the stream, in order: [file, kind, data]
    messages,     \* what sendMessage received, in order: [file, kind, text]
    promise,      \* the promise generate() returns: [state, reason]
    log,          \* per reported file: what the loop did with it
    \* ---- processTree on its own ----
    tFile,        \* the source file: [fileName, text, nodes]
    tResult,      \* [done, replacer, out]
    \* ---- writeDeclaration on its own ----
    dIn,          \* [platform, fileName, eol, stmts]
    dOut          \* [done, file, result]

genVars == <<osPlatform, build, pc, opts, reported, idx, sink, output, messages,
             promise, log>>

treeVars == <<tFile, tResult>>

declVars == <<dIn, dOut>>

vars == <<genVars, treeVars, declVars>>

(***************************************************************************)
(* JavaScript string primitives, as the code uses them.                    *)
(***************************************************************************)
\* s.slice(from, to): negative indices count from the end, both are clamped
Slice(s, from, to) ==
    LET n == Len(s)
        f == IF from < 0 THEN Max(n + from, 0) ELSE Min(from, n)
        t == IF to < 0 THEN Max(n + to, 0) ELSE Min(to, n)
    IN  SubSeq(s, f + 1, t)

\* s.slice(from)
SliceFrom(s, from) == Slice(s, from, Len(s))

\* s.indexOf(t): the first index at which t occurs in s, or -1
IndexOf(s, t) ==
    LET hits == {i \in 0..(Len(s) - Len(t)) : SubSeq(s, i + 1, i + Len(t)) = t}
    IN  IF hits = {} THEN -1 ELSE CHOOSE i \in hits : \A j \in hits : i <= j

\* s.charAt(0) === c
CharAt0Is(s, c) == Len(s) > 0 /\ s[1] = c

(***************************************************************************)
(* The libraries generate() calls: Node's path module (pathUtil) for the   *)
(* two platforms, and minimatch under multimatch (src/index.js). Their     *)
(* code is not part of the sources; what they answer is recorded, call by  *)
(* call, for the calls the runs of this module make. A call that is not    *)
(* recorded has no value.                                                  *)
(***************************************************************************)
Platforms == {"posix", "win32"}

\* pathUtil.sep
PathSep(platform) == IF platform = "win32" THEN "\\" ELSE "/"

\* what a call gave: it returned value, or it did not return
Returned(value) == [returns |-> TRUE, value |-> value]

NeverReturned == [returns |-> FALSE, value |-> FALSE]

\* the recorded answer to the call with the arguments `call`
Answer(answers, call) == (CHOOSE a \in answers : a[1] = call)[2]

\* pathUtil.resolve(...args), the working directory being /p on posix and
\* C:\p on win32
ResolveAnswers(platform) ==
    IF platform = "win32"
    THEN { \* resolve('C:/p/s') is 'C:\p\s'
           <<<<<<"C", ":", "/", "p", "/", "s">>>>,
             <<"C", ":", "\\", "p", "\\", "s">>>>,
           \* resolve('C:/p/s/') is 'C:\p\s'
           <<<<<<"C", ":", "/", "p", "/", "s", "/">>>>,
             <<"C", ":", "\\", "p", "\\", "s">>>>,
           \* resolve('a.ts') is 'C:\p\a.ts'
           <<<<<<"a", ".", "t", "s">>>>,
             <<"C", ":", "\\", "p", "\\", "a", ".", "t", "s">>>>,
           \* resolve('s/i/x.d.ts') is 'C:\p\s\i\x.d.ts'
           <<<<<<"s", "/", "i", "/", "x", ".", "d", ".", "t", "s">>>>,
             <<"C", ":", "\\", "p", "\\", "s", "\\", "i", "\\", "x", ".", "d", ".", "t", "s">>>>,
           \* resolve('s-o/x.d.ts') is 'C:\p\s-o\x.d.ts'
           <<<<<<"s", "-", "o", "/", "x", ".", "d", ".", "t", "s">>>>,
             <<"C", ":", "\\", "p", "\\", "s", "-", "o", "\\", "x", ".", "d", ".", "t", "s">>>>,
           \* resolve('C:\p\s', 'a.ts') is 'C:\p\s\a.ts'
           <<<<<<"C", ":", "\\", "p", "\\", "s">>, <<"a", ".", "t", "s">>>>,
             <<"C", ":", "\\", "p", "\\", "s", "\\", "a", ".", "t", "s">>>>,
           \* resolve('C:\p\s', 'i/x.d.ts') is 'C:\p\s\i\x.d.ts'
           <<<<<<"C", ":", "\\", "p", "\\", "s">>, <<"i", "/", "x", ".", "d", ".", "t", "s">>>>,
             <<"C", ":", "\\", "p", "\\", "s", "\\", "i", "\\", "x", ".", "d", ".", "t", "s">>>>,
           \* resolve('C:\p\s', 'i/*.d.ts') is 'C:\p\s\i\*.d.ts'
           <<<<<<"C", ":", "\\", "p", "\\", "s">>, <<"i", "/", "*", ".", "d", ".", "t", "s">>>>,
             <<"C", ":", "\\", "p", "\\", "s", "\\", "i", "\\", "*", ".", "d", ".", "t", "s">>>>,
           \* resolve('C:\p\s', '**/x.d.ts') is 'C:\p\s\**\x.d.ts'
           <<<<<<"C", ":", "\\", "p", "\\", "s">>, <<"*", "*", "/", "x", ".", "d", ".", "t", "s">>>>,
             <<"C", ":", "\\", "p", "\\", "s", "\\", "*", "*", "\\", "x", ".", "d", ".", "t", "s">>>>,
           \* resolve('C:\p\s', '{a,b}.ts') is 'C:\p\s\{a,b}.ts'
           <<<<<<"C", ":", "\\", "p", "\\", "s">>, <<"{", "a", ",", "b", "}", ".", "t", "s">>>>,
             <<"C", ":", "\\", "p", "\\", "s", "\\", "{", "a", ",", "b", "}", ".", "t", "s">>>>,
           \* resolve('C:\p\s', '{1..2..0}') is 'C:\p\s\{1..2..0}'
           <<<<<<"C", ":", "\\", "p", "\\", "s">>, <<"{", "1", ".", ".", "2", ".", ".", "0", "}">>>>,
             <<"C", ":", "\\", "p", "\\", "s", "\\", "{", "1", ".", ".", "2", ".", ".", "0", "}">>>> }
    ELSE
         { \* resolve('/p/s') is '/p/s'
           <<<<<<"/", "p", "/", "s">>>>,
             <<"/", "p", "/", "s">>>>,
           \* resolve('/p/s/') is '/p/s'
           <<<<<<"/", "p", "/", "s", "/">>>>,
             <<"/", "p", "/", "s">>>>,
           \* resolve('a.ts') is '/p/a.ts'
           <<<<<<"a", ".", "t", "s">>>>,
             <<"/", "p", "/", "a", ".", "t", "s">>>>,
           \* resolve('s/i/x.d.ts') is '/p/s/i/x.d.ts'
           <<<<<<"s", "/", "i", "/", "x", ".", "d", ".", "t", "s">>>>,
             <<"/", "p", "/", "s", "/", "i", "/", "x", ".", "d", ".", "t", "s">>>>,
           \* resolve('s-o/x.d.ts') is '/p/s-o/x.d.ts'
           <<<<<<"s", "-", "o", "/", "x", ".", "d", ".", "t", "s">>>>,
             <<"/", "p", "/", "s", "-", "o", "/", "x", ".", "d", ".", "t", "s">>>>,
           \* resolve('/p/s', 'a.ts') is '/p/s/a.ts'
           <<<<<<"/", "p", "/", "s">>, <<"a", ".", "t", "s">>>>,
             <<"/", "p", "/", "s", "/", "a", ".", "t", "s">>>>,
           \* resolve('/p/s', 'i/x.d.ts') is '/p/s/i/x.d.ts'
           <<<<<<"/", "p", "/", "s">>, <<"i", "/", "x", ".", "d", ".", "t", "s">>>>,
             <<"/", "p", "/", "s", "/", "i", "/", "x", ".", "d", ".", "t", "s">>>>,
           \* resolve('/p/s', 'i/*.d.ts') is '/p/s/i/*.d.ts'
           <<<<<<"/", "p", "/", "s">>, <<"i", "/", "*", ".", "d", ".", "t", "s">>>>,
             <<"/", "p", "/", "s", "/", "i", "/", "*", ".", "d", ".", "t", "s">>>>,
           \* resolve('/p/s', '**/x.d.ts') is '/p/s/**/x.d.ts'
           <<<<<<"/", "p", "/", "s">>, <<"*", "*", "/", "x", ".", "d", ".", "t", "s">>>>,
             <<"/", "p", "/", "s", "/", "*", "*", "/", "x", ".", "d", ".", "t", "s">>>>,
           \* resolve('/p/s', '{a,b}.ts') is '/p/s/{a,b}.ts'
           <<<<<<"/", "p", "/", "s">>, <<"{", "a", ",", "b", "}", ".", "t", "s">>>>,
             <<"/", "p", "/", "s", "/", "{", "a", ",", "b", "}", ".", "t", "s">>>>,
           \* resolve('/p/s', '{1..2..0}') is '/p/s/{1..2..0}'
           <<<<<<"/", "p", "/", "s">>, <<"{", "1", ".", ".", "2", ".", ".", "0", "}">>>>,
             <<"/", "p", "/", "s", "/", "{", "1", ".", ".", "2", ".", ".", "0", "}">>>> }

\* pathUtil.normalize(path)
NormalizeAnswers(platform) ==
    IF platform = "win32"
    THEN { \* normalize('C:/p/s/a.ts') is 'C:\p\s\a.ts'
           <<<<<<"C", ":", "/", "p", "/", "s", "/", "a", ".", "t", "s">>>>,
             <<"C", ":", "\\", "p", "\\", "s", "\\", "a", ".", "t", "s">>>>,
           \* normalize('C:/p/s/a.d.ts') is 'C:\p\s\a.d.ts'
           <<<<<<"C", ":", "/", "p", "/", "s", "/", "a", ".", "d", ".", "t", "s">>>>,
             <<"C", ":", "\\", "p", "\\", "s", "\\", "a", ".", "d", ".", "t", "s">>>>,
           \* normalize('C:/p/s/i/x.d.ts') is 'C:\p\s\i\x.d.ts'
           <<<<<<"C", ":", "/", "p", "/", "s", "/", "i", "/", "x", ".", "d", ".", "t", "s">>>>,
             <<"C", ":", "\\", "p", "\\", "s", "\\", "i", "\\", "x", ".", "d", ".", "t", "s">>>>,
           \* normalize('C:/p/s-o/x.d.ts') is 'C:\p\s-o\x.d.ts'
           <<<<<<"C", ":", "/", "p", "/", "s", "-", "o", "/", "x", ".", "d", ".", "t", "s">>>>,
             <<"C", ":", "\\", "p", "\\", "s", "-", "o", "\\", "x", ".", "d", ".", "t", "s">>>>,
           \* normalize('C:/l/l.d.ts') is 'C:\l\l.d.ts'
           <<<<<<"C", ":", "/", "l", "/", "l", ".", "d", ".", "t", "s">>>>,
             <<"C", ":", "\\", "l", "\\", "l", ".", "d", ".", "t", "s">>>> }
    ELSE
         { \* normalize('/p/s/a.ts') is '/p/s/a.ts'
           <<<<<<"/", "p", "/", "s", "/", "a", ".", "t", "s">>>>,
             <<"/", "p", "/", "s", "/", "a", ".", "t", "s">>>>,
           \* normalize('/p/s/a.d.ts') is '/p/s/a.d.ts'
           <<<<<<"/", "p", "/", "s", "/", "a", ".", "d", ".", "t", "s">>>>,
             <<"/", "p", "/", "s", "/", "a", ".", "d", ".", "t", "s">>>>,
           \* normalize('/p/s/i/x.d.ts') is '/p/s/i/x.d.ts'
           <<<<<<"/", "p", "/", "s", "/", "i", "/", "x", ".", "d", ".", "t", "s">>>>,
             <<"/", "p", "/", "s", "/", "i", "/", "x", ".", "d", ".", "t", "s">>>>,
           \* normalize('/p/s-o/x.d.ts') is '/p/s-o/x.d.ts'
           <<<<<<"/", "p", "/", "s", "-", "o", "/", "x", ".", "d", ".", "t", "s">>>>,
             <<"/", "p", "/", "s", "-", "o", "/", "x", ".", "d", ".", "t", "s">>>>,
           \* normalize('/l/l.d.ts') is '/l/l.d.ts'
           <<<<<<"/", "l", "/", "l", ".", "d", ".", "t", "s">>>>,
             <<"/", "l", "/", "l", ".", "d", ".", "t", "s">>>> }

\* pathUtil.relative(from, to)
RelativeAnswers(platform) ==
    IF platform = "win32"
    THEN { \* relative('C:\p\s', 'C:/p/s/a.ts') is 'a.ts'
           <<<<<<"C", ":", "\\", "p", "\\", "s">>, <<"C", ":", "/", "p", "/", "s", "/", "a", ".", "t", "s">>>>,
             <<"a", ".", "t", "s">>>>,
           \* relative('C:\p\s', 'C:/p/s/a.d.ts') is 'a.d.ts'
           <<<<<<"C", ":", "\\", "p", "\\", "s">>, <<"C", ":", "/", "p", "/", "s", "/", "a", ".", "d", ".", "t", "s">>>>,
             <<"a", ".", "d", ".", "t", "s">>>>,
           \* relative('C:\p\s', 'C:/p/s/i/x.d.ts') is 'i\x.d.ts'
           <<<<<<"C", ":", "\\", "p", "\\", "s">>, <<"C", ":", "/", "p", "/", "s", "/", "i", "/", "x", ".", "d", ".", "t", "s">>>>,
             <<"i", "\\", "x", ".", "d", ".", "t", "s">>>>,
           \* relative('C:\p\s', 'C:/p/s-o/x.d.ts') is '..\s-o\x.d.ts'
           <<<<<<"C", ":", "\\", "p", "\\", "s">>, <<"C", ":", "/", "p", "/", "s", "-", "o", "/", "x", ".", "d", ".", "t", "s">>>>,
             <<".", ".", "\\", "s", "-", "o", "\\", "x", ".", "d", ".", "t", "s">>>> }
    ELSE
         { \* relative('/p/s', '/p/s/a.ts') is 'a.ts'
           <<<<<<"/", "p", "/", "s">>, <<"/", "p", "/", "s", "/", "a", ".", "t", "s">>>>,
             <<"a", ".", "t", "s">>>>,
           \* relative('/p/s', '/p/s/a.d.ts') is 'a.d.ts'
           <<<<<<"/", "p", "/", "s">>, <<"/", "p", "/", "s", "/", "a", ".", "d", ".", "t", "s">>>>,
             <<"a", ".", "d", ".", "t", "s">>>>,
           \* relative('/p/s', '/p/s/i/x.d.ts') is 'i/x.d.ts'
           <<<<<<"/", "p", "/", "s">>, <<"/", "p", "/", "s", "/", "i", "/", "x", ".", "d", ".", "t", "s">>>>,
             <<"i", "/", "x", ".", "d", ".", "t", "s">>>>,
           \* relative('/p/s', '/p/s-o/x.d.ts') is '../s-o/x.d.ts'
           <<<<<<"/", "p", "/", "s">>, <<"/", "p", "/", "s", "-", "o", "/", "x", ".", "d", ".", "t", "s">>>>,
             <<".", ".", "/", "s", "-", "o", "/", "x", ".", "d", ".", "t", "s">>>> }

\* pathUtil.dirname(path)
DirnameAnswers(platform) ==
    IF platform = "win32"
    THEN { \* dirname('pkg/a') is 'pkg'
           <<<<<<"p", "k", "g", "/", "a">>>>,
             <<"p", "k", "g">>>>,
           \* dirname('pkg/i/x') is 'pkg/i'
           <<<<<<"p", "k", "g", "/", "i", "/", "x">>>>,
             <<"p", "k", "g", "/", "i">>>>,
           \* dirname('pkg-o/x') is 'pkg-o'
           <<<<<<"p", "k", "g", "-", "o", "/", "x">>>>,
             <<"p", "k", "g", "-", "o">>>> }
    ELSE
         { \* dirname('pkg/a') is 'pkg'
           <<<<<<"p", "k", "g", "/", "a">>>>,
             <<"p", "k", "g">>>>,
           \* dirname('pkg/i/x') is 'pkg/i'
           <<<<<<"p", "k", "g", "/", "i", "/", "x">>>>,
             <<"p", "k", "g", "/", "i">>>>,
           \* dirname('pkg-o/x') is 'pkg-o'
           <<<<<<"p", "k", "g", "-", "o", "/", "x">>>>,
             <<"p", "k", "g", "-", "o">>>> }

\* pathUtil.join(a, b)
JoinAnswers(platform) ==
    IF platform = "win32"
    THEN { \* join('pkg', './a') is 'pkg\a'
           <<<<<<"p", "k", "g">>, <<".", "/", "a">>>>,
             <<"p", "k", "g", "\\", "a">>>>,
           \* join('pkg', '../a') is 'a'
           <<<<<<"p", "k", "g">>, <<".", ".", "/", "a">>>>,
             <<"a">>>>,
           \* join('pkg', './d/a') is 'pkg\d\a'
           <<<<<<"p", "k", "g">>, <<".", "/", "d", "/", "a">>>>,
             <<"p", "k", "g", "\\", "d", "\\", "a">>>>,
           \* join('pkg', '../../a') is '..\a'
           <<<<<<"p", "k", "g">>, <<".", ".", "/", ".", ".", "/", "a">>>>,
             <<".", ".", "\\", "a">>>>,
           \* join('pkg/i', './a') is 'pkg\i\a'
           <<<<<<"p", "k", "g", "/", "i">>, <<".", "/", "a">>>>,
             <<"p", "k", "g", "\\", "i", "\\", "a">>>>,
           \* join('pkg/i', '../a') is 'pkg\a'
           <<<<<<"p", "k", "g", "/", "i">>, <<".", ".", "/", "a">>>>,
             <<"p", "k", "g", "\\", "a">>>>,
           \* join('pkg/i', './d/a') is 'pkg\i\d\a'
           <<<<<<"p", "k", "g", "/", "i">>, <<".", "/", "d", "/", "a">>>>,
             <<"p", "k", "g", "\\", "i", "\\", "d", "\\", "a">>>>,
           \* join('pkg/i', '../../a') is 'a'
           <<<<<<"p", "k", "g", "/", "i">>, <<".", ".", "/", ".", ".", "/", "a">>>>,
             <<"a">>>>,
           \* join('pkg-o', './a') is 'pkg-o\a'
           <<<<<<"p", "k", "g", "-", "o">>, <<".", "/", "a">>>>,
             <<"p", "k", "g", "-", "o", "\\", "a">>>> }
    ELSE
         { \* join('pkg', './a') is 'pkg/a'
           <<<<<<"p", "k", "g">>, <<".", "/", "a">>>>,
             <<"p", "k", "g", "/", "a">>>>,
           \* join('pkg', '../a') is 'a'
           <<<<<<"p", "k", "g">>, <<".", ".", "/", "a">>>>,
             <<"a">>>>,
           \* join('pkg', './d/a') is 'pkg/d/a'
           <<<<<<"p", "k", "g">>, <<".", "/", "d", "/", "a">>>>,
             <<"p", "k", "g", "/", "d", "/", "a">>>>,
           \* join('pkg', '../../a') is '../a'
           <<<<<<"p", "k", "g">>, <<".", ".", "/", ".", ".", "/", "a">>>>,
             <<".", ".", "/", "a">>>>,
           \* join('pkg/i', './a') is 'pkg/i/a'
           <<<<<<"p", "k", "g", "/", "i">>, <<".", "/", "a">>>>,
             <<"p", "k", "g", "/", "i", "/", "a">>>>,
           \* join('pkg/i', '../a') is 'pkg/a'
           <<<<<<"p", "k", "g", "/", "i">>, <<".", ".", "/", "a">>>>,
             <<"p", "k", "g", "/", "a">>>>,
           \* join('pkg/i', './d/a') is 'pkg/i/d/a'
           <<<<<<"p", "k", "g", "/", "i">>, <<".", "/", "d", "/", "a">>>>,
             <<"p", "k", "g", "/", "i", "/", "d", "/", "a">>>>,
           \* join('pkg/i', '../../a') is 'a'
           <<<<<<"p", "k", "g", "/", "i">>, <<".", ".", "/", ".", ".", "/", "a">>>>,
             <<"a">>>>,
           \* join('pkg-o', './a') is 'pkg-o/a'
           <<<<<<"p", "k", "g", "-", "o">>, <<".", "/", "a">>>>,
             <<"p", "k", "g", "-", "o", "/", "a">>>> }

\* minimatch.match([path], pattern), as multimatch calls it: whether the call
\* returns and, when it does, whether the path is in the list it returns
MinimatchAnswers(platform) ==
    IF platform = "win32"
    THEN { \* match(['a.ts'], 'i/*.d.ts') is empty
           <<<<<<"a", ".", "t", "s">>, <<"i", "/", "*", ".", "d", ".", "t", "s">>>>,
             Returned(FALSE)>>,
           \* match(['a.ts'], 'a.ts') holds the path
           <<<<<<"a", ".", "t", "s">>, <<"a", ".", "t", "s">>>>,
             Returned(TRUE)>>,
           \* match(['a.ts'], '**/x.d.ts') is empty
           <<<<<<"a", ".", "t", "s">>, <<"*", "*", "/", "x", ".", "d", ".", "t", "s">>>>,
             Returned(FALSE)>>,
           \* match(['a.ts'], '{a,b}.ts') holds the path
           <<<<<<"a", ".", "t", "s">>, <<"{", "a", ",", "b", "}", ".", "t", "s">>>>,
             Returned(TRUE)>>,
           \* match(['a.ts'], '{1..2..0}') does not return
           <<<<<<"a", ".", "t", "s">>, <<"{", "1", ".", ".", "2", ".", ".", "0", "}">>>>,
             NeverReturned>>,
           \* match(['a.d.ts'], 'i/*.d.ts') is empty
           <<<<<<"a", ".", "d", ".", "t", "s">>, <<"i", "/", "*", ".", "d", ".", "t", "s">>>>,
             Returned(FALSE)>>,
           \* match(['a.d.ts'], 'a.ts') is empty
           <<<<<<"a", ".", "d", ".", "t", "s">>, <<"a", ".", "t", "s">>>>,
             Returned(FALSE)>>,
           \* match(['a.d.ts'], '**/x.d.ts') is empty
           <<<<<<"a", ".", "d", ".", "t", "s">>, <<"*", "*", "/", "x", ".", "d", ".", "t", "s">>>>,
             Returned(FALSE)>>,
           \* match(['a.d.ts'], '{a,b}.ts') is empty
           <<<<<<"a", ".", "d", ".", "t", "s">>, <<"{", "a", ",", "b", "}", ".", "t", "s">>>>,
             Returned(FALSE)>>,
           \* match(['a.d.ts'], '{1..2..0}') does not return
           <<<<<<"a", ".", "d", ".", "t", "s">>, <<"{", "1", ".", ".", "2", ".", ".", "0", "}">>>>,
             NeverReturned>>,
           \* match(['i\x.d.ts'], 'i/*.d.ts') holds the path
           <<<<<<"i", "\\", "x", ".", "d", ".", "t", "s">>, <<"i", "/", "*", ".", "d", ".", "t", "s">>>>,
             Returned(TRUE)>>,
           \* match(['i\x.d.ts'], 'a.ts') is empty
           <<<<<<"i", "\\", "x", ".", "d", ".", "t", "s">>, <<"a", ".", "t", "s">>>>,
             Returned(FALSE)>>,
           \* match(['i\x.d.ts'], '**/x.d.ts') holds the path
           <<<<<<"i", "\\", "x", ".", "d", ".", "t", "s">>, <<"*", "*", "/", "x", ".", "d", ".", "t", "s">>>>,
             Returned(TRUE)>>,
           \* match(['i\x.d.ts'], '{a,b}.ts') is empty
           <<<<<<"i", "\\", "x", ".", "d", ".", "t", "s">>, <<"{", "a", ",", "b", "}", ".", "t", "s">>>>,
             Returned(FALSE)>>,
           \* match(['i\x.d.ts'], '{1..2..0}') does not return
           <<<<<<"i", "\\", "x", ".", "d", ".", "t", "s">>, <<"{", "1", ".", ".", "2", ".", ".", "0", "}">>>>,
             NeverReturned>>,
           \* match(['..\s-o\x.d.ts'], 'i/*.d.ts') is empty
           <<<<<<".", ".", "\\", "s", "-", "o", "\\", "x", ".", "d", ".", "t", "s">>, <<"i", "/", "*", ".", "d", ".", "t", "s">>>>,
             Returned(FALSE)>>,
           \* match(['..\s-o\x.d.ts'], 'a.ts') is empty
           <<<<<<".", ".", "\\", "s", "-", "o", "\\", "x", ".", "d", ".", "t", "s">>, <<"a", ".", "t", "s">>>>,
             Returned(FALSE)>>,
           \* match(['..\s-o\x.d.ts'], '**/x.d.ts') is empty
           <<<<<<".", ".", "\\", "s", "-", "o", "\\", "x", ".", "d", ".", "t", "s">>, <<"*", "*", "/", "x", ".", "d", ".", "t", "s">>>>,
             Returned(FALSE)>>,
           \* match(['..\s-o\x.d.ts'], '{a,b}.ts') is empty
           <<<<<<".", ".", "\\", "s", "-", "o", "\\", "x", ".", "d", ".", "t", "s">>, <<"{", "a", ",", "b", "}", ".", "t", "s">>>>,
             Returned(FALSE)>>,
           \* match(['..\s-o\x.d.ts'], '{1..2..0}') does not return
           <<<<<<".", ".", "\\", "s", "-", "o", "\\", "x", ".", "d", ".", "t", "s">>, <<"{", "1", ".", ".", "2", ".", ".", "0", "}">>>>,
             NeverReturned>> }
    ELSE
         { \* match(['a.ts'], 'i/*.d.ts') is empty
           <<<<<<"a", ".", "t", "s">>, <<"i", "/", "*", ".", "d", ".", "t", "s">>>>,
             Returned(FALSE)>>,
           \* match(['a.ts'], 'a.ts') holds the path
           <<<<<<"a", ".", "t", "s">>, <<"a", ".", "t", "s">>>>,
             Returned(TRUE)>>,
           \* match(['a.ts'], '**/x.d.ts') is empty
           <<<<<<"a", ".", "t", "s">>, <<"*", "*", "/", "x", ".", "d", ".", "t", "s">>>>,
             Returned(FALSE)>>,
           \* match(['a.ts'], '{a,b}.ts') holds the path
           <<<<<<"a", ".", "t", "s">>, <<"{", "a", ",", "b", "}", ".", "t", "s">>>>,
             Returned(TRUE)>>,
           \* match(['a.ts'], '{1..2..0}') does not return
           <<<<<<"a", ".", "t", "s">>, <<"{", "1", ".", ".", "2", ".", ".", "0", "}">>>>,
             NeverReturned>>,
           \* match(['a.d.ts'], 'i/*.d.ts') is empty
           <<<<<<"a", ".", "d", ".", "t", "s">>, <<"i", "/", "*", ".", "d", ".", "t", "s">>>>,
             Returned(FALSE)>>,
           \* match(['a.d.ts'], 'a.ts') is empty
           <<<<<<"a", ".", "d", ".", "t", "s">>, <<"a", ".", "t", "s">>>>,
             Returned(FALSE)>>,
           \* match(['a.d.ts'], '**/x.d.ts') is empty
           <<<<<<"a", ".", "d", ".", "t", "s">>, <<"*", "*", "/", "x", ".", "d", ".", "t", "s">>>>,
             Returned(FALSE)>>,
           \* match(['a.d.ts'], '{a,b}.ts') is empty
           <<<<<<"a", ".", "d", ".", "t", "s">>, <<"{", "a", ",", "b", "}", ".", "t", "s">>>>,
             Returned(FALSE)>>,
           \* match(['a.d.ts'], '{1..2..0}') does not return
           <<<<<<"a", ".", "d", ".", "t", "s">>, <<"{", "1", ".", ".", "2", ".", ".", "0", "}">>>>,
             NeverReturned>>,
           \* match(['i/x.d.ts'], 'i/*.d.ts') holds the path
           <<<<<<"i", "/", "x", ".", "d", ".", "t", "s">>, <<"i", "/", "*", ".", "d", ".", "t", "s">>>>,
             Returned(TRUE)>>,
           \* match(['i/x.d.ts'], 'a.ts') is empty
           <<<<<<"i", "/", "x", ".", "d", ".", "t", "s">>, <<"a", ".", "t", "s">>>>,
             Returned(FALSE)>>,
           \* match(['i/x.d.ts'], '**/x.d.ts') holds the path
           <<<<<<"i", "/", "x", ".", "d", ".", "t", "s">>, <<"*", "*", "/", "x", ".", "d", ".", "t", "s">>>>,
             Returned(TRUE)>>,
           \* match(['i/x.d.ts'], '{a,b}.ts') is empty
           <<<<<<"i", "/", "x", ".", "d", ".", "t", "s">>, <<"{", "a", ",", "b", "}", ".", "t", "s">>>>,
             Returned(FALSE)>>,
           \* match(['i/x.d.ts'], '{1..2..0}') does not return
           <<<<<<"i", "/", "x", ".", "d", ".", "t", "s">>, <<"{", "1", ".", ".", "2", ".", ".", "0", "}">>>>,
             NeverReturned>>,
           \* match(['../s-o/x.d.ts'], 'i/*.d.ts') is empty
           <<<<<<".", ".", "/", "s", "-", "o", "/", "x", ".", "d", ".", "t", "s">>, <<"i", "/", "*", ".", "d", ".", "t", "s">>>>,
             Returned(FALSE)>>,
           \* match(['../s-o/x.d.ts'], 'a.ts') is empty
           <<<<<<".", ".", "/", "s", "-", "o", "/", "x", ".", "d", ".", "t", "s">>, <<"a", ".", "t", "s">>>>,
             Returned(FALSE)>>,
           \* match(['../s-o/x.d.ts'], '**/x.d.ts') is empty
           <<<<<<".", ".", "/", "s", "-", "o", "/", "x", ".", "d", ".", "t", "s">>, <<"*", "*", "/", "x", ".", "d", ".", "t", "s">>>>,
             Returned(FALSE)>>,
           \* match(['../s-o/x.d.ts'], '{a,b}.ts') is empty
           <<<<<<".", ".", "/", "s", "-", "o", "/", "x", ".", "d", ".", "t", "s">>, <<"{", "a", ",", "b", "}", ".", "t", "s">>>>,
             Returned(FALSE)>>,
           \* match(['../s-o/x.d.ts'], '{1..2..0}') does not return
           <<<<<<".", ".", "/", "s", "-", "o", "/", "x", ".", "d", ".", "t", "s">>, <<"{", "1", ".", ".", "2", ".", ".", "0", "}">>>>,
             NeverReturned>> }

Resolve(platform, args) == Answer(ResolveAnswers(platform), args)

Normalize(platform, p) == Answer(NormalizeAnswers(platform), <<p>>)

Relative(platform, from, to) == Answer(RelativeAnswers(platform), <<from, to>>)

Dirname(platform, p) == Answer(DirnameAnswers(platform), <<p>>)

Join(platform, a, b) == Answer(JoinAnswers(platform), <<a, b>>)

Minimatch(platform, path, pattern) ==
    Answer(MinimatchAnswers(platform), <<path, pattern>>)

\* multimatch(path, patterns).length !== 0: patterns.reduce from the empty
\* list; a pattern adds the path when it matches (union), a pattern starting
\* with "!" takes it away when the rest of the pattern matches (difference)
RECURSIVE MultimatchFrom(_, _, _, _, _)
MultimatchFrom(platform, path, patterns, i, matched) ==
    IF i > Len(patterns) THEN Returned(matched)
    ELSE With(IF CharAt0Is(patterns[i], "!")
              THEN Minimatch(platform, path, SliceFrom(patterns[i], 1))
              ELSE Minimatch(platform, path, patterns[i]),
              LAMBDA r :
                IF ~r.returns THEN NeverReturned
                ELSE MultimatchFrom(platform, path, patterns, i + 1,
                        IF CharAt0Is(patterns[i], "!") THEN matched /\ ~r.value
                        ELSE matched \/ r.value))

multimatch(platform, path, patterns) ==
    MultimatchFrom(platform, path, patterns, 1, FALSE)

(***************************************************************************)
(* filenameToMid                                                           *)
(***************************************************************************)
\* every occurrence of `sep` replaced by "/"
ReplaceSep(filename, sep) ==
    [i \in 1..Len(filename) |-> IF filename[i] = sep THEN "/" ELSE filename[i]]

filenameToMid(platform, filename) ==
    IF PathSep(platform) = "/"
    THEN filename
    ELSE ReplaceSep(filename, PathSep(platform))

(***************************************************************************)
(* Text helpers of JavaScript.                                             *)
(***************************************************************************)
\* the lists of a list of lists, one after the other
RECURSIVE Flatten(_)
Flatten(lists) ==
    IF lists = <<>> THEN <<>> ELSE Head(lists) \o Flatten(Tail(lists))

Digits == <<"0", "1", "2", "3", "4", "5", "6", "7", "8", "9">>

\* String(n)
RECURSIVE DigitsOf(_)
DigitsOf(n) ==
    IF n < 10 THEN <<Digits[n + 1]>>
    ELSE Append(DigitsOf(n \div 10), Digits[(n % 10) + 1])

NumberToString(n) == IF n < 0 THEN <<"-">> \o DigitsOf(0 - n) ELSE DigitsOf(n)

(***************************************************************************)
(* processTree: the text-preserving walk of a syntax tree.                 *)
(*                                                                         *)
(* A source file is [fileName, text, nodes]: nodes lists the tree in       *)
(* pre-order, nodes[1] is the SourceFile node, and each node is            *)
(* [pos, end, parent, kind, flags, text]. A replacer is given by the       *)
(* answer it has for each node: [tag |-> "null"], [tag |-> "str", str]     *)
(* or [tag |-> "throw"] when the call raises.                              *)
(***************************************************************************)
ReplNull == [tag |-> "null", str |-> <<>>]

ReplStr(str) == [tag |-> "str", str |-> str]

ReplThrow == [tag |-> "throw", str |-> <<>>]

\* the children ts.forEachChild(node, cb) hands to cb, in its order
ChildrenFrom(nodes, i, j) ==
    SelectSeq([k \in 1..(Len(nodes) - j + 1) |-> k + j - 1],
              LAMBDA k : nodes[k].parent = i)

forEachChild(nodes, i) == ChildrenFrom(nodes, i, 1)

\* skip with the cursor left at the start of the node
skipToStart(node, st) == [st EXCEPT !.cursorPosition = node.pos]

\* function skip(node)
skip(node, st) == [st EXCEPT !.cursorPosition = node.end]

\* readThrough that copies the text and leaves the cursor where it was
readThroughNoAdvance(text, node, st) ==
    [st EXCEPT !.code = @ \o Slice(text, st.cursorPosition, node.pos)]

\* function readThrough(node)
readThrough(text, node, st) ==
    [st EXCEPT !.code = @ \o Slice(text, st.cursorPosition, node.pos),
               !.cursorPosition = node.pos]

\* function visit(node), and ts.forEachChild(node, visit) over `todo`
RECURSIVE visit(_, _, _, _)
RECURSIVE visitEach(_, _, _, _, _)
visit(sourceFile, replacer, i, st) ==
    IF st.thrown THEN st
    ELSE LET node == sourceFile.nodes[i]
             st1  == [readThrough(sourceFile.text, node, st)
                         EXCEPT !.visited = Append(@, i)]
             replacement == replacer[i]
         IN  IF replacement.tag = "throw"
             THEN [st1 EXCEPT !.thrown = TRUE]
             ELSE IF replacement.tag = "str"
                  THEN skip(node, [st1 EXCEPT !.code = @ \o replacement.str])
                  ELSE visitEach(sourceFile, replacer,
                                 forEachChild(sourceFile.nodes, i), 1, st1)

visitEach(sourceFile, replacer, todo, k, st) ==
    IF k > Len(todo) THEN st
    ELSE visitEach(sourceFile, replacer, todo, k + 1,
                   visit(sourceFile, replacer, todo[k], st))

\* processTree(sourceFile, replacer): the rewritten text, with the nodes the
\* replacer was called on and whether a call raised
processTree(sourceFile, replacer) ==
    LET st == visit(sourceFile, replacer, 1,
                    [code |-> <<>>, cursorPosition |-> 0,
                     visited |-> <<>>, thrown |-> FALSE])
    IN  IF st.thrown THEN st
        ELSE [st EXCEPT !.code = @ \o SliceFrom(sourceFile.text, st.cursorPosition)]

(***************************************************************************)
(* Declaration files. The text of a file is a sequence of units: a unit    *)
(* is one character of a module specifier or a whole run of other text.    *)
(***************************************************************************)
Node(pos, end, parent, kind, flags, text) ==
    [pos |-> pos, end |-> end, parent |-> parent, kind |-> kind,
     flags |-> flags, text |-> text]

\* import { f } from '<spec>';
ImportStmt(spec) ==
    LET n == Len(spec)
    IN  [text  |-> <<"import", " { f }", " from", " '">> \o spec \o <<"'", ";">>,
         nodes |-> <<Node(0, n + 6, 0, "ImportDeclaration", {}, <<>>),
                     Node(1, 2, 1, "ImportClause", {}, <<>>),
                     Node(3, n + 5, 1, "StringLiteral", {}, spec)>>]

\* export * from '<spec>';
ExportStmt(spec) ==
    LET n == Len(spec)
    IN  [text  |-> <<"export", " *", " from", " '">> \o spec \o <<"'", ";">>,
         nodes |-> <<Node(0, n + 6, 0, "ExportDeclaration", {}, <<>>),
                     Node(3, n + 5, 1, "StringLiteral", {}, spec)>>]

\* import x = require('<spec>');
RequireStmt(spec) ==
    LET n == Len(spec)
    IN  [text  |-> <<"import", " x", " =", " require(", "'">> \o spec \o <<"'", ")", ";">>,
         nodes |-> <<Node(0, n + 8, 0, "ImportEqualsDeclaration", {}, <<>>),
                     Node(1, 2, 1, "Identifier", {}, <<"x">>),
                     Node(3, n + 7, 1, "ExternalModuleReference", {}, <<>>),
                     Node(4, n + 6, 3, "StringLiteral", {}, spec)>>]

\* import x = require(a.b);  -- the parser accepts any expression here
RequireExprStmt ==
    [text  |-> <<"import", " x", " =", " require(", "a.b", ")", ";">>,
     nodes |-> <<Node(0, 7, 0, "ImportEqualsDeclaration", {}, <<>>),
                 Node(1, 2, 1, "Identifier", {}, <<"x">>),
                 Node(3, 6, 1, "ExternalModuleReference", {}, <<>>),
                 Node(4, 5, 3, "PropertyAccessExpression", {}, <<>>)>>]

\* export declare function g(): void;
ExportFunctionStmt ==
    [text  |-> <<"export", " declare", " function g(): void;">>,
     nodes |-> <<Node(0, 3, 0, "FunctionDeclaration", {"Export", "Ambient"}, <<>>),
                 Node(0, 1, 1, "ExportKeyword", {}, <<>>),
                 Node(1, 2, 1, "DeclareKeyword", {}, <<>>),
                 Node(2, 3, 1, "Identifier", {}, <<"g">>)>>]

\* declare function f(): void;
DeclareFunctionStmt ==
    [text  |-> <<"declare", " function f(): void;">>,
     nodes |-> <<Node(0, 2, 0, "FunctionDeclaration", {"Ambient"}, <<>>),
                 Node(0, 1, 1, "DeclareKeyword", {}, <<>>),
                 Node(1, 2, 1, "Identifier", {}, <<"f">>)>>]

\* declare module '<spec>' { }  -- a string literal that is no import/export specifier
AmbientModuleStmt(spec) ==
    LET n == Len(spec)
    IN  [text  |-> <<"declare", " module", " '">> \o spec \o <<"'", " { }">>,
         nodes |-> <<Node(0, n + 5, 0, "ModuleDeclaration", {"Ambient"}, <<>>),
                     Node(0, 1, 1, "DeclareKeyword", {}, <<>>),
                     Node(2, n + 4, 1, "StringLiteral", {}, spec),
                     Node(n + 4, n + 5, 1, "ModuleBlock", {}, <<>>)>>]

\* export = x;
ExportAssignStmt ==
    [text  |-> <<"export", " =", " x", ";">>,
     nodes |-> <<Node(0, 4, 0, "ExportAssignment", {}, <<>>),
                 Node(2, 3, 1, "Identifier", {}, <<"x">>)>>]

\* import y = a.b;  -- an import-equals declaration of an entity name; the
\* names inside a.b share one unit of text
ImportAliasStmt ==
    [text  |-> <<"import", " y", " =", " a.b", ";">>,
     nodes |-> <<Node(0, 5, 0, "ImportEqualsDeclaration", {}, <<>>),
                 Node(1, 2, 1, "Identifier", {}, <<"y">>),
                 Node(3, 4, 1, "QualifiedName", {}, <<>>)>>]

\* declare module 'm' { export function h(): void; }  -- the export flag is on
\* a statement of the module block, not on a statement of the file
AmbientModuleExportStmt ==
    [text  |-> <<"declare", " module", " 'm'", " {", " export",
                 " function h(): void;", " }">>,
     nodes |-> <<Node(0, 7, 0, "ModuleDeclaration", {"Ambient"}, <<>>),
                 Node(0, 1, 1, "DeclareKeyword", {}, <<>>),
                 Node(2, 3, 1, "StringLiteral", {}, <<"m">>),
                 Node(3, 7, 1, "ModuleBlock", {}, <<>>),
                 Node(4, 6, 4, "FunctionDeclaration", {"Export"}, <<>>),
                 Node(4, 5, 5, "ExportKeyword", {}, <<>>),
                 Node(5, 6, 5, "Identifier", {}, <<"h">>)>>]

\* a statement moved to offset `at` of the text, after `before` nodes of the
\* file; every statement but the first begins on a new line
PlaceStmt(stmt, at, before, eol) ==
    LET lead == IF at = 0 THEN 0 ELSE Len(eol)
    IN  [text  |-> (IF at = 0 THEN <<>> ELSE eol) \o stmt.text,
         nodes |-> [k \in 1..Len(stmt.nodes) |->
                      LET nd == stmt.nodes[k]
                      IN  [nd EXCEPT
                             !.pos = IF nd.pos = 0 THEN at ELSE at + lead + nd.pos,
                             !.end = at + lead + nd.end,
                             !.parent = IF nd.parent = 0 THEN 1
                                        ELSE before + nd.parent]]]

RECURSIVE PlaceAll(_, _, _, _, _)
PlaceAll(stmts, k, text, nodes, eol) ==
    IF k > Len(stmts) THEN [text |-> text, nodes |-> nodes]
    ELSE LET placed == PlaceStmt(stmts[k], Len(text), Len(nodes) + 1, eol)
         IN  PlaceAll(stmts, k + 1, text \o placed.text, nodes \o placed.nodes, eol)

\* ts.createSourceFile(fileName, text): the statements, one per line, with a
\* final line end when the file is not empty
SourceFile(fileName, stmts, eol) ==
    LET body  == PlaceAll(stmts, 1, <<>>, <<>>, eol)
        text  == IF stmts = <<>> THEN <<>> ELSE body.text \o eol
    IN  [fileName |-> fileName,
         text     |-> text,
         nodes    |-> <<Node(0, Len(text), 0, "SourceFile", {}, <<>>)>>
                      \o body.nodes
                      \o <<Node(Len(body.text), Len(text), 1, "EndOfFileToken", {}, <<>>)>>]

\* sourceFile.statements
Statements(sourceFile) ==
    SelectSeq(forEachChild(sourceFile.nodes, 1),
              LAMBDA k : sourceFile.nodes[k].kind # "EndOfFileToken")

\* the statement a description [kind, spec] stands for
StmtOf(desc) ==
    CASE desc.kind = "import"          -> ImportStmt(desc.spec)
      [] desc.kind = "export"          -> ExportStmt(desc.spec)
      [] desc.kind = "require"         -> RequireStmt(desc.spec)
      [] desc.kind = "ambientModule"   -> AmbientModuleStmt(desc.spec)
      [] desc.kind = "exportFunction"  -> ExportFunctionStmt
      [] desc.kind = "declareFunction" -> DeclareFunctionStmt
      [] desc.kind = "requireExpr"     -> RequireExprStmt
      [] desc.kind = "exportAssign"    -> ExportAssignStmt
      [] desc.kind = "importAlias"     -> ImportAliasStmt
      [] desc.kind = "ambientModuleExport" -> AmbientModuleExportStmt

\* the declaration file with the statements `descs`
DeclFile(fileName, descs, eol) ==
    SourceFile(fileName, [k \in 1..Len(descs) |-> StmtOf(descs[k])], eol)

(***************************************************************************)
(* isExternalModule and writeDeclaration                                   *)
(***************************************************************************)
\* (<ts.ImportEqualsDeclaration> node).moduleReference
ModuleReference(nodes, i) ==
    LET c == forEachChild(nodes, i) IN nodes[c[Len(c)]]

\* (<ts.ExternalModuleReference> node).expression
Expression(nodes, i) ==
    LET c == forEachChild(nodes, i) IN nodes[c[1]]

\* the kinds of expression node that have a `text` property
HasText(node) == node.kind \in {"StringLiteral", "Identifier"}

\* the test isExternalModule applies to one top-level statement
IsExternalMarker(nodes, i) ==
    \/ "Export" \in nodes[i].flags
    \/ /\ nodes[i].kind = "ImportEqualsDeclaration"
       /\ ModuleReference(nodes, i).kind = "ExternalModuleReference"
    \/ nodes[i].kind = "ImportDeclaration"
    \/ nodes[i].kind = "ExportAssignment"
    \/ nodes[i].kind = "ExportDeclaration"

isExternalModule(sourceFile) ==
    \E k \in 1..Len(Statements(sourceFile)) :
        IsExternalMarker(sourceFile.nodes, Statements(sourceFile)[k])

\* filenameToMid(pathUtil.join(pathUtil.dirname(sourceModuleId), text))
ResolveModuleId(platform, sourceModuleId, text) ==
    filenameToMid(platform, Join(platform, Dirname(platform, sourceModuleId), text))

\* the replacer writeDeclaration hands to processTree, called on node i
DeclarationReplacer(platform, sourceModuleId, nodes, i) ==
    LET node == nodes[i]
    IN  IF node.kind = "ExternalModuleReference"
        THEN LET expression == Expression(nodes, i)
             IN  IF ~HasText(expression) THEN ReplThrow
                 ELSE IF CharAt0Is(expression.text, ".")
                      THEN ReplStr(<<" require('">>
                                   \o ResolveModuleId(platform, sourceModuleId, expression.text)
                                   \o <<"')">>)
                      ELSE ReplNull
        ELSE IF node.kind = "DeclareKeyword"
             THEN ReplStr(<<>>)
             ELSE IF /\ node.kind = "StringLiteral"
                     /\ nodes[node.parent].kind \in {"ExportDeclaration", "ImportDeclaration"}
                  THEN IF CharAt0Is(node.text, ".")
                       THEN ReplStr(<<" '">>
                                    \o ResolveModuleId(platform, sourceModuleId, node.text)
                                    \o <<"'">>)
                       ELSE ReplNull
                  ELSE ReplNull

\* what String.prototype.replace puts in for the replacement text repl at
\* one match: "$$" is "$", "$&" the matched text, "$<backquote>" the text
\* before the match, "$'" the text after it; the expression has no group, so
\* "$" before a digit or anything else stays as it is
RECURSIVE GetSubstitution(_, _, _, _, _)
GetSubstitution(repl, i, matched, before, after) ==
    IF i > Len(repl) THEN <<>>
    ELSE IF repl[i] = "$" /\ i < Len(repl) /\ repl[i + 1] \in {"$", "&", "<backquote>", "'"}
         THEN (CASE repl[i + 1] = "$" -> <<"$">>
                 [] repl[i + 1] = "&" -> matched
                 [] repl[i + 1] = "<backquote>" -> before
                 [] OTHER -> after)
              \o GetSubstitution(repl, i + 2, matched, before, after)
         ELSE <<repl[i]>> \o GetSubstitution(repl, i + 1, matched, before, after)

\* content.replace(nonEmptyLineStart, '$&' + indent), where nonEmptyLineStart is
\* new RegExp(eol + '(?!' + eol + '|$)', 'g')
RECURSIVE Reindent(_, _, _, _)
Reindent(content, i, eol, indent) ==
    LET n    == Len(eol)
        at(j) == j + n - 1 <= Len(content) /\ SubSeq(content, j, j + n - 1) = eol
    IN  IF i > Len(content) THEN <<>>
        ELSE IF at(i) /\ ~at(i + n) /\ i + n <= Len(content)
             THEN GetSubstitution(<<"$", "&">> \o indent, 1, eol,
                                  SubSeq(content, 1, i - 1),
                                  SubSeq(content, i + n, Len(content)))
                  \o Reindent(content, i + n, eol, indent)
             ELSE <<content[i]>> \o Reindent(content, i + 1, eol, indent)

\* the module id writeDeclaration computes for a declaration file
SourceModuleId(platform, name, baseDir, filename) ==
    name \o filenameToMid(platform, Slice(filename, Len(baseDir), -5))

\* the result of writeDeclaration for an ambient file: its text as it is
WriteAmbient(sourceModuleId, declarationFile) ==
    [writes |-> <<declarationFile.text>>, thrown |-> FALSE,
     sourceModuleId |-> sourceModuleId, external |-> FALSE]

\* the result of writeDeclaration for an external module: the opening line,
\* then, unless processTree raised, the indented content and the closing line
WriteModule(sourceModuleId, fmt, content) ==
    [writes |-> <<fmt.eol \o <<"declare module '">> \o sourceModuleId
                  \o <<"' {">> \o fmt.eol \o fmt.indent>>
                \o (IF content.thrown THEN <<>>
                    ELSE <<Reindent(content.code, 1, fmt.lineStartEol, fmt.indent),
                           fmt.eol \o <<"}">> \o fmt.eol>>),
     thrown |-> content.thrown,
     sourceModuleId |-> sourceModuleId, external |-> TRUE]

\* the body of writeDeclaration, once sourceModuleId is computed
WriteWithId(platform, sourceModuleId, fmt, declarationFile) ==
    IF isExternalModule(declarationFile)
    THEN WriteModule(sourceModuleId, fmt,
            processTree(declarationFile,
               [i \in 1..Len(declarationFile.nodes) |->
                  DeclarationReplacer(platform, sourceModuleId,
                                      declarationFile.nodes, i)]))
    ELSE WriteAmbient(sourceModuleId, declarationFile)

\* writeDeclaration(declarationFile): what it writes to the output, in order,
\* and whether it raised. fmt is [eol, lineStartEol, indent].
writeDeclaration(platform, name, baseDir, fmt, declarationFile) ==
    WriteWithId(platform,
                SourceModuleId(platform, name, baseDir, declarationFile.fileName),
                fmt, declarationFile)

(***************************************************************************)
(* Specification SpecTree: processTree applied to the trees over a short   *)
(* text. A tree is grown node by node in pre-order, as the parser lays     *)
(* nodes out: a child lies within its parent, and a node starts where its  *)
(* previous sibling ended or later.                                        *)
(***************************************************************************)
Alphabet == <<"a", "b", "c", "d", "e", "f">>

Texts == {SubSeq(Alphabet, 1, n) : n \in 0..Min(MaxText, Len(Alphabet))}

Replacements == {<<>>, <<"R">>, <<"R", "S">>}

\* node j is node i or one of its ancestors
RECURSIVE IsAncestorOrSelf(_, _, _)
IsAncestorOrSelf(nodes, j, i) ==
    IF i = 0 THEN FALSE
    ELSE IF i = j THEN TRUE
         ELSE IsAncestorOrSelf(nodes, j, nodes[i].parent)

\* the least position a new child of p may start at: after p's last child
ChildFloor(nodes, p) ==
    LET c == forEachChild(nodes, p)
    IN  IF c = <<>> THEN nodes[p].pos ELSE nodes[c[Len(c)]].end

GenIdle ==
    /\ osPlatform = "posix" /\ build = "ts" /\ pc = "idle"
    /\ opts = <<>> /\ reported = <<>> /\ idx = 0
    /\ sink = <<>> /\ output = <<>> /\ messages = <<>>
    /\ promise = <<>> /\ log = <<>>

TreeIdle == tFile = <<>> /\ tResult = <<>>

DeclIdle == dIn = <<>> /\ dOut = <<>>

TreeInit ==
    /\ GenIdle /\ DeclIdle
    /\ \E text \in Texts :
          tFile = [fileName |-> <<>>, text |-> text,
                   nodes |-> <<Node(0, Len(text), 0, "SourceFile", {}, <<>>)>>]
    /\ tResult = [done |-> FALSE, replacer |-> <<>>, out |-> <<>>]

\* the parser adds the next node of the tree
TreeAddNode ==
    /\ ~tResult.done
    /\ Len(tFile.nodes) < MaxNodes
    /\ \E p \in 1..Len(tFile.nodes) :
          /\ IsAncestorOrSelf(tFile.nodes, p, Len(tFile.nodes))
          /\ \E pos \in ChildFloor(tFile.nodes, p)..tFile.nodes[p].end :
             \E end \in pos..tFile.nodes[p].end :
                tFile' = [tFile EXCEPT
                            !.nodes = Append(@, Node(pos, end, p, "Other", {}, <<>>))]
    /\ UNCHANGED <<tResult, genVars, declVars>>

\* processTree(sourceFile, replacer) with a replacer that replaces the nodes of
\* `hit` by R and answers null for the others
TreeRewrite ==
    /\ ~tResult.done
    /\ \E hit \in SUBSET (1..Len(tFile.nodes)) :
       \E R \in Replacements :
          /\ Cardinality(hit) <= 1 \/ (Cardinality(hit) = 2 /\ R = <<"R">>)
          /\ hit = {} => R = <<>>
          /\ LET replacer == [i \in 1..Len(tFile.nodes) |->
                                IF i \in hit THEN ReplStr(R) ELSE ReplNull]
             IN  tResult' = [done |-> TRUE, replacer |-> replacer,
                             out |-> processTree(tFile, replacer)]
    /\ UNCHANGED <<tFile, genVars, declVars>>

TreeNext == TreeAddNode \/ TreeRewrite

SpecTree == TreeInit /\ [][TreeNext]_vars

(***************************************************************************)
(* The project the runs work on: a base directory /p/s (C:\p\s on win32)   *)
(* with its files, a sibling directory /p/s-o and a library outside /p.    *)
(***************************************************************************)
\* an absolute path as the compiler reports it: "/" separated on either
\* platform, with the drive in front on win32
AbsPath(platform, chars) ==
    IF platform = "win32" THEN <<"C", ":">> \o chars ELSE chars

BaseDirChars == <<"/", "p", "/", "s">>

Rel_a_ts == <<"a", ".", "t", "s">>

Rel_a_dts == <<"a", ".", "d", ".", "t", "s">>

Rel_i_x_dts == <<"i", "/", "x", ".", "d", ".", "t", "s">>

\* files under the base directory
File_a_ts == BaseDirChars \o <<"/">> \o Rel_a_ts

File_a_dts == BaseDirChars \o <<"/">> \o Rel_a_dts

File_i_x_dts == BaseDirChars \o <<"/">> \o Rel_i_x_dts

\* a file of the sibling directory /p/s-o
File_sibling_dts == <<"/", "p", "/", "s", "-", "o", "/", "x", ".", "d", ".", "t", "s">>

\* the default library, outside the project
File_lib_dts == <<"/", "l", "/", "l", ".", "d", ".", "t", "s">>

\* options.name
PackageName == <<"p", "k", "g">>

LF == <<"\n">>

CRLF == <<"\r", "\n">>

\* os.EOL
OsEol(platform) == IF platform = "win32" THEN CRLF ELSE LF

(***************************************************************************)
(* generate(): the pieces of one run.                                      *)
(***************************************************************************)
\* function getFilenames(baseDir, files)
getFilenames(platform, baseDir, files) ==
    [k \in 1..Len(files) |->
        LET resolvedFilename == Resolve(platform, <<files[k]>>)
        IN  IF IndexOf(resolvedFilename, baseDir) = 0
            THEN resolvedFilename
            ELSE Resolve(platform, <<baseDir, files[k]>>)]

\* the .d.ts files of tsconfig.json's "files", resolved against baseDir
tsConfigDeclarationFiles(platform, baseDir, files) ==
    LET dts == SelectSeq(files, LAMBDA f : SliceFrom(f, -5) = <<".", "d", ".", "t", "s">>)
    IN  [k \in 1..Len(dts) |-> Resolve(platform, <<baseDir, dts[k]>>)]

\* excludesMap, as index.ts builds it from options.excludes
ExcludesMap(platform, baseDir, excludes) ==
    {filenameToMid(platform, Resolve(platform, <<baseDir, excludes[k]>>)) :
        k \in 1..Len(excludes)}

\* eol after tsconfig.json was read: options.eol wins; otherwise a newLine of
\* tsconfig.json that is truthy sets it, to "\r\n" only when it is === 0, the
\* value of NewLineKind.CarriageReturnLineFeed. index.ts reads the raw JSON
\* value (a string), index.js the parsed enum value (CRLF is 0, LF is 1).
ConfigEol(whichBuild, eol, optionsEol, newLine) ==
    IF optionsEol # <<>> \/ newLine = "none" THEN eol
    ELSE IF whichBuild = "ts" THEN LF
         ELSE IF newLine = "CRLF" THEN eol ELSE LF

\* the test of the loop: the file is a library or another project's file
IsOutsideBaseDir(platform, baseDir, fileName) ==
    IndexOf(Normalize(platform, fileName), baseDir) # 0

\* index.ts: excludesMap[filenameToMid(pathUtil.normalize(sourceFile.fileName))]
IsExcludedTs(platform, o, fileName) ==
    filenameToMid(platform, Normalize(platform, fileName)) \in o.excludesMap

\* index.js: multimatch(pathUtil.relative(baseDir, sourceFile.fileName),
\* options.excludes).length !== 0, when multimatch returns
IsExcludedJs(platform, o, fileName) ==
    multimatch(platform, Relative(platform, o.baseDir, fileName), o.excludes)

\* the test of the loop for an excluded file, and whether it returns
ExcludeTest(whichBuild, platform, o, fileName) ==
    IF whichBuild = "ts" THEN Returned(IsExcludedTs(platform, o, fileName))
    ELSE IsExcludedJs(platform, o, fileName)

IsExcluded(whichBuild, platform, o, fileName) ==
    With(ExcludeTest(whichBuild, platform, o, fileName),
         LAMBDA r : r.returns /\ r.value)

\* sourceFile.fileName.slice(-5) === '.d.ts'
IsDeclarationFile(fileName) == SliceFrom(fileName, -5) = <<".", "d", ".", "t", "s">>

\* the names the compiler emits a source file under: the script, then the
\* declaration file
EmitNames(fileName) ==
    LET stem == Slice(fileName, 0, -3)
    IN  <<stem \o <<".", "j", "s">>, stem \o <<".", "d", ".", "t", "s">>>>

\* emitOutput.emitSkipped || emitOutput.diagnostics.length > 0
EmitFailed(emitOutput) == emitOutput.emitSkipped \/ Len(emitOutput.diagnostics) > 0

\* a diagnostic of the compiler at the start of a file
FileDiagnostic(fileName) ==
    [hasFile |-> TRUE, fileName |-> fileName, line |-> 0, character |-> 0,
     code |-> 1005, messageText |-> "';' expected."]

\* the line getError adds to its message for one diagnostic
DiagnosticLine(d) ==
    <<"\n">> \o d.fileName
    \o <<"(">> \o NumberToString(d.line + 1) \o <<",">>
    \o NumberToString(d.character + 1) \o <<"): error TS">>
    \o NumberToString(d.code) \o <<": ", d.messageText>>

\* function getError(diagnostics): an Error named EmitterError whose message
\* has one line per diagnostic; diagnostic.file.getLineAndCharacterOfPosition
\* raises a TypeError for a diagnostic without a file
getError(diagnostics) ==
    IF \E k \in 1..Len(diagnostics) : ~diagnostics[k].hasFile
    THEN [thrown |-> TRUE, error |-> [name |-> "TypeError", message |-> <<>>]]
    ELSE [thrown |-> FALSE,
          error |-> [name |-> "EmitterError",
                     message |-> <<"Declaration generation failed">>
                                 \o Flatten([k \in 1..Len(diagnostics) |->
                                                DiagnosticLine(diagnostics[k])])]]

\* resolve and reject of the promise change its state once
SettleAlways(p, state, reason) == [state |-> state, reason |-> reason]

Settle(p, state, reason) ==
    IF p.state = "pending" THEN [state |-> state, reason |-> reason] ELSE p

\* writes that land in front of what the stream already holds
PrependWrites(out, file, writes) ==
    [k \in 1..Len(writes) |-> [file |-> file, data |-> writes[k]]] \o out

\* output.write(data), once per element of writes, on behalf of reported file
\* `file` (0: the banner, the references and the alias)
AppendWrites(out, file, writes) ==
    out \o [k \in 1..Len(writes) |-> [file |-> file, data |-> writes[k]]]

\* what a call of writeFile did: nothing, or what writeDeclaration did
NotCalled ==
    [writes |-> <<>>, thrown |-> FALSE, sourceModuleId |-> <<>>,
     external |-> FALSE, called |-> FALSE]

Called(r) ==
    [writes |-> r.writes, thrown |-> r.thrown, sourceModuleId |-> r.sourceModuleId,
     external |-> r.external, called |-> TRUE]

\* function writeFile(filename, data, writeByteOrderMark): the callback of
\* program.emit; data is the declaration text, parsed again
writeFile(platform, o, filename, descs) ==
    IF SliceFrom(filename, -5) # <<".", "d", ".", "t", "s">>
    THEN NotCalled
    ELSE Called(writeDeclaration(platform, PackageName, o.baseDir,
                   [eol |-> o.eol, lineStartEol |-> o.lineStartEol,
                    indent |-> o.indent],
                   DeclFile(filename, descs, o.eol)))

\* what the calls of writeFile did so far, and one more
MergeCalls(acc, r) ==
    [writes |-> acc.writes \o r.writes,
     thrown |-> r.thrown,
     sourceModuleId |-> IF r.called THEN r.sourceModuleId ELSE acc.sourceModuleId,
     external |-> acc.external \/ r.external,
     called |-> acc.called \/ r.called]

\* program.emit(sourceFile, writeFile): the compiler calls writeFile for the
\* names in `names`, in order, until a call raises
RECURSIVE EmitCalls(_, _, _, _, _, _)
EmitCalls(platform, o, names, descs, k, acc) ==
    IF k > Len(names) \/ acc.thrown THEN acc
    ELSE EmitCalls(platform, o, names, descs, k + 1,
                   MergeCalls(acc, writeFile(platform, o, names[k], descs)))

\* the names program.emit hands to writeFile for an answer of the compiler
EmittedNames(fileName, emitOutput) ==
    IF emitOutput.wrote THEN EmitNames(fileName)
    ELSE IF emitOutput.emitSkipped THEN <<>>
         ELSE SubSeq(EmitNames(fileName), 1, 1)

(***************************************************************************)
(* Specification Spec: runs of generate().                                 *)
(***************************************************************************)
Builds == {"ts", "js"}

\* the source files a program may report
Catalogue == {File_a_ts, File_a_dts, File_i_x_dts, File_sibling_dts, File_lib_dts}

\* options.baseDir
BaseDirInputs == {BaseDirChars, BaseDirChars \o <<"/">>}

\* options.files: relative to baseDir, relative to the working directory /p
FilesInputs ==
    { <<>>, <<Rel_a_ts>>, <<<<"s", "/">> \o Rel_i_x_dts>>,
      <<<<"s", "-", "o", "/", "x", ".", "d", ".", "t", "s">>>> }

\* options.excludes: none, a glob pattern, an exact base-relative path, a
\* pattern with "**" and one with braces, a pattern that matches followed by a
\* sequence of step 0
ExcludesInputs ==
    { <<>>, <<<<"i", "/", "*", ".", "d", ".", "t", "s">>>>, <<Rel_a_ts>>,
      << <<"*", "*", "/", "x", ".", "d", ".", "t", "s">>,
         <<"{", "a", ",", "b", "}", ".", "t", "s">> >>,
      << Rel_a_ts, <<"{", "1", ".", ".", "2", ".", ".", "0", "}">> >> }

\* options.externs
ExternsInputs == { <<>>, <<<<"e", ".", "d", ".", "t", "s">>>> }

\* options.main, <<>> when it is not set
MainInputs == { <<>>, PackageName \o <<"/", "a">> }

\* tsconfig.json in baseDir
TsConfigInputs ==
    {[exists |-> FALSE, readError |-> FALSE, parseErrors |-> FALSE,
      hasCompilerOptions |-> TRUE, hasFiles |-> TRUE,
      newLine |-> "none", files |-> <<>>]}
    \cup {c \in [exists : {TRUE}, readError : BOOLEAN, parseErrors : BOOLEAN,
                  hasCompilerOptions : BOOLEAN, hasFiles : BOOLEAN,
                  newLine : {"none", "LF"}, files : {<<>>, <<Rel_i_x_dts>>}] :
             /\ ~c.hasCompilerOptions => c.newLine = "none"
             /\ ~c.hasFiles => c.files = <<>>}

\* options.indent: not set, or a text with a replacement pattern in it
IndentInputs == { <<>>, <<"$", "&">> }

\* the declaration text of a file: ambient, an external module with a relative
\* import, an external module whose require(...) has no string literal
DeclInputs ==
    { <<[kind |-> "declareFunction", spec |-> <<>>]>>,
      <<[kind |-> "import", spec |-> <<".", "/", "a">>],
        [kind |-> "exportFunction", spec |-> <<>>]>>,
      <<[kind |-> "exportFunction", spec |-> <<>>],
        [kind |-> "requireExpr", spec |-> <<>>]>> }

\* what program.emit answers for a source file: emitSkipped, the number of its
\* diagnostics and whether the declaration file was handed to writeFile
EmitInputs(fileName) ==
    { [emitSkipped |-> FALSE, diagnostics |-> <<>>, wrote |-> TRUE],
      [emitSkipped |-> TRUE,  diagnostics |-> <<>>, wrote |-> FALSE],
      [emitSkipped |-> FALSE, diagnostics |-> <<FileDiagnostic(fileName)>>, wrote |-> TRUE],
      [emitSkipped |-> FALSE, diagnostics |-> <<FileDiagnostic(fileName)>>, wrote |-> FALSE] }

\* the lists of distinct files of the catalogue, reported for the root files
\* `roots`: the program holds its root files
ReportedLists(platform, roots) ==
    LET names == {AbsPath(platform, f) : f \in Catalogue}
        lists == UNION {[1..n -> names] : n \in 0..MaxFiles}
    IN  {l \in lists :
            /\ \A i, j \in 1..Len(l) : i # j => l[i] # l[j]
            /\ \A k \in 1..Len(roots) :
                  \E i \in 1..Len(l) : l[i] = ReplaceSep(roots[k], "\\")}

Init ==
    /\ TreeIdle /\ DeclIdle
    /\ osPlatform \in Platforms
    /\ build \in Builds
    /\ pc = "start"
    /\ opts = <<>> /\ reported = <<>> /\ idx = 0
    /\ sink = [opened |-> 0, ended |-> 0, errorEvent |-> FALSE, closeEvent |-> FALSE]
    /\ output = <<>> /\ messages = <<>> /\ log = <<>>
    /\ promise = [state |-> "none", reason |-> <<>>]

\* generate() up to the promise it returns: the options, tsconfig.json, the
\* output stream and the program
Start ==
    /\ pc = "start"
    /\ \E bd \in BaseDirInputs, files \in FilesInputs, excludes \in ExcludesInputs,
          optionsEol \in {<<>>, LF}, optionsIndent \in IndentInputs,
          tsConfig \in TsConfigInputs :
          LET baseDir   == Resolve(osPlatform, <<AbsPath(osPlatform, bd)>>)
              eol       == IF optionsEol # <<>> THEN optionsEol ELSE OsEol(osPlatform)
              configErr == /\ tsConfig.exists
                           /\ \/ tsConfig.readError
                              \/ build = "js" /\ tsConfig.parseErrors
              typeErr   == /\ tsConfig.exists
                           /\ \/ build = "ts" /\ ~tsConfig.hasCompilerOptions
                              \/ ~tsConfig.hasFiles
              filenames == (IF tsConfig.exists
                            THEN tsConfigDeclarationFiles(osPlatform, baseDir, tsConfig.files)
                            ELSE <<>>)
                           \o getFilenames(osPlatform, baseDir, files)
          IN  IF configErr
              THEN /\ promise' = [state |-> "rejected",
                                  reason |-> [name |-> "ConfigError"]]
                   /\ pc' = "configError"
                   /\ UNCHANGED <<opts, reported, sink>>
              ELSE IF typeErr
              THEN /\ pc' = "thrownSync"
                   /\ UNCHANGED <<opts, reported, sink, promise>>
              ELSE /\ opts' = [baseDir |-> baseDir,
                               eol |-> IF tsConfig.exists
                                       THEN ConfigEol(build, eol, optionsEol, tsConfig.newLine)
                                       ELSE eol,
                               lineStartEol |-> eol,
                               indent |-> IF optionsIndent = <<>> THEN <<"\t">>
                                          ELSE optionsIndent,
                               excludes |-> excludes,
                               excludesMap |-> IF build = "ts"
                                               THEN ExcludesMap(osPlatform, baseDir, excludes)
                                               ELSE {}]
                   /\ sink' = [sink EXCEPT !.opened = @ + 1]
                   /\ \E l \in ReportedLists(osPlatform, filenames) : reported' = l
                   /\ promise' = [state |-> "pending", reason |-> <<>>]
                   /\ pc' = "header"
    /\ UNCHANGED <<osPlatform, build, idx, output, messages, log, treeVars, declVars>>

\* the executor of the promise, up to the loop: the banner and the references
WriteHeader ==
    /\ pc = "header"
    /\ \E externs \in ExternsInputs :
          /\ output' = AppendWrites(output, 0,
                          <<<<"//">> \o opts.eol
                            \o <<"// Auto-generated by dts-generator (https://github.com/enlight/dts-generator/)">>
                            \o opts.eol \o <<"//">> \o opts.eol \o opts.eol>>
                          \o [k \in 1..Len(externs) |->
                                <<"/// <reference path=\"">> \o externs[k]
                                \o <<"\" />">> \o opts.eol])
          /\ messages' = messages \o
                [k \in 1..Len(externs) |->
                    [file |-> 0, kind |-> "Writing external dependency",
                     text |-> externs[k]]]
    /\ idx' = 1
    /\ pc' = IF reported = <<>> THEN "finish" ELSE "loop"
    /\ UNCHANGED <<osPlatform, build, opts, reported, sink, promise, log,
                   treeVars, declVars>>

\* the loop goes on with the next file, or is over
Advance ==
    /\ idx' = idx + 1
    /\ pc' = IF idx + 1 > Len(reported) THEN "finish" ELSE "loop"

LogEntry(what, emitOutput, emitReturned, handed, mid) ==
    [what |-> what, emitOutput |-> emitOutput, emitReturned |-> emitReturned,
     handed |-> handed, sourceModuleId |-> mid]

NoEmit == [emitSkipped |-> FALSE, diagnostics |-> <<>>, wrote |-> FALSE]

\* the callback of some(): a file that is not under baseDir
SkipOutside ==
    /\ pc = "loop"
    /\ IsOutsideBaseDir(osPlatform, opts.baseDir, reported[idx])
    /\ log' = Append(log, LogEntry("outside", NoEmit, FALSE, FALSE, <<>>))
    /\ Advance
    /\ UNCHANGED <<osPlatform, build, opts, reported, sink, output, messages,
                   promise, treeVars, declVars>>

\* the callback of some(): an excluded file; index.js tells the caller
SkipExcluded ==
    /\ pc = "loop"
    /\ ~IsOutsideBaseDir(osPlatform, opts.baseDir, reported[idx])
    /\ IsExcluded(build, osPlatform, opts, reported[idx])
    /\ messages' = IF build = "js"
                   THEN Append(messages,
                           [file |-> idx, kind |-> "Excluding",
                            text |-> Relative(osPlatform, opts.baseDir, reported[idx])])
                   ELSE messages
    /\ log' = Append(log, LogEntry("excluded", NoEmit, FALSE, FALSE, <<>>))
    /\ Advance
    /\ UNCHANGED <<osPlatform, build, opts, reported, sink, output, promise,
                   treeVars, declVars>>

\* the callback of some(): multimatch does not return for a pattern of
\* options.excludes with a sequence of step 0; the process ends out of memory,
\* with nothing sent, settled or closed
OutOfMemory ==
    /\ pc = "loop"
    /\ ~IsOutsideBaseDir(osPlatform, opts.baseDir, reported[idx])
    /\ ~ExcludeTest(build, osPlatform, opts, reported[idx]).returns
    /\ log' = Append(log, LogEntry("died", NoEmit, FALSE, FALSE, <<>>))
    /\ pc' = "died"
    /\ UNCHANGED <<osPlatform, build, opts, reported, idx, sink, output, messages,
                   promise, treeVars, declVars>>

\* the file of the loop is one the loop bundles
IsBundled ==
    /\ pc = "loop"
    /\ ~IsOutsideBaseDir(osPlatform, opts.baseDir, reported[idx])
    /\ With(ExcludeTest(build, osPlatform, opts, reported[idx]),
            LAMBDA r : r.returns /\ ~r.value)

Processing == [file |-> idx, kind |-> "Processing", text |-> reported[idx]]

\* an exception leaves the executor: the promise is rejected with it
Throw ==
    /\ promise' = Settle(promise, "rejected", [name |-> "TypeError", message |-> <<>>])
    /\ pc' = "thrown"
    /\ idx' = idx

\* the rest of the callback once writeDeclaration is back with r
AfterDeclaration(r) ==
    /\ output' = AppendWrites(output, idx, r.writes)
    /\ log' = Append(log, LogEntry("declaration", NoEmit, FALSE, TRUE, r.sourceModuleId))
    /\ IF r.thrown THEN Throw
       ELSE Advance /\ UNCHANGED promise

\* the callback of some(): a declaration file goes to writeDeclaration
ProcessDeclaration ==
    /\ IsBundled
    /\ IsDeclarationFile(reported[idx])
    /\ messages' = Append(messages, Processing)
    /\ \E descs \in DeclInputs :
          AfterDeclaration(
             writeDeclaration(osPlatform, PackageName, opts.baseDir,
                [eol |-> opts.eol, lineStartEol |-> opts.lineStartEol,
                 indent |-> opts.indent],
                DeclFile(reported[idx], descs, opts.eol)))
    /\ UNCHANGED <<osPlatform, build, opts, reported, sink, treeVars, declVars>>

\* a callback that rejects for a failed emit and lets the loop go on
AfterEmitGoesOn(r, emitOutput, others) ==
    /\ output' = AppendWrites(output, idx, r.writes)
    /\ log' = Append(log, LogEntry("emit", emitOutput, ~r.thrown,
                                 r.called, r.sourceModuleId))
    /\ IF r.thrown THEN Throw
       ELSE IF EmitFailed(emitOutput)
            THEN IF getError(emitOutput.diagnostics \o others).thrown
                 THEN Throw
                 ELSE /\ promise' = Settle(promise, "rejected",
                                       getError(emitOutput.diagnostics \o others).error)
                      /\ Advance
            ELSE Advance /\ UNCHANGED promise

\* the rest of the callback once program.emit is back with emitOutput, its
\* calls of writeFile having done r
AfterEmit(r, emitOutput, others) ==
    /\ output' = AppendWrites(output, idx, r.writes)
    /\ log' = Append(log, LogEntry("emit", emitOutput, ~r.thrown,
                                 r.called, r.sourceModuleId))
    /\ IF r.thrown THEN Throw
       ELSE IF EmitFailed(emitOutput)
            THEN IF getError(emitOutput.diagnostics \o others).thrown
                 THEN Throw
                 ELSE /\ promise' = Settle(promise, "rejected",
                                       getError(emitOutput.diagnostics \o others).error)
                      /\ pc' = "finish"
                      /\ idx' = idx
            ELSE Advance /\ UNCHANGED promise

\* the callback of some(): a source file goes to program.emit, which calls
\* writeFile; a failed emit rejects the promise and ends the loop
ProcessSource ==
    /\ IsBundled
    /\ ~IsDeclarationFile(reported[idx])
    /\ messages' = Append(messages, Processing)
    /\ \E emitOutput \in EmitInputs(reported[idx]), descs \in DeclInputs,
          others \in {<<>>, <<FileDiagnostic(reported[idx])>>} :
          /\ ~emitOutput.wrote => descs = CHOOSE d \in DeclInputs : TRUE
          /\ ~EmitFailed(emitOutput) => others = <<>>
          /\ AfterEmit(EmitCalls(osPlatform, opts,
                                 EmittedNames(reported[idx], emitOutput),
                                 descs, 1, NotCalled),
                       emitOutput, others)
    /\ UNCHANGED <<osPlatform, build, opts, reported, sink, treeVars, declVars>>

\* the executor after the loop: the alias of the main module, output.end()
Finish ==
    /\ pc = "finish"
    /\ \E main \in MainInputs :
          IF main # <<>>
          THEN /\ output' = AppendWrites(output, 0,
                               <<opts.eol \o <<"declare module '">> \o PackageName
                                   \o <<"' {">> \o opts.eol,
                                 opts.indent \o <<"export * from '">> \o main
                                   \o <<"';">> \o opts.eol,
                                 <<"}">> \o opts.eol>>)
               /\ messages' = Append(messages,
                                 [file |-> 0, kind |-> "Aliased main module",
                                  text |-> main])
          ELSE UNCHANGED <<output, messages>>
    /\ sink' = [sink EXCEPT !.ended = @ + 1]
    /\ pc' = "returned"
    /\ UNCHANGED <<osPlatform, build, opts, reported, idx, promise, log,
                   treeVars, declVars>>

\* the executor is over, by a return or by an exception
ExecutorOver == pc \in {"returned", "thrown"}

\* output.on('error', reject): the stream fails to open or to write
SinkError ==
    /\ ExecutorOver
    /\ ~sink.errorEvent /\ ~sink.closeEvent
    /\ sink' = [sink EXCEPT !.errorEvent = TRUE]
    /\ promise' = Settle(promise, "rejected", [name |-> "IOError"])
    /\ UNCHANGED <<osPlatform, build, pc, opts, reported, idx, output, messages,
                   log, treeVars, declVars>>

\* output.on('close', ...): the stream was ended, or destroyed by an error
SinkClose ==
    /\ ExecutorOver
    /\ sink.ended > 0 \/ sink.errorEvent
    /\ ~sink.closeEvent
    /\ sink' = [sink EXCEPT !.closeEvent = TRUE]
    /\ promise' = Settle(promise, "fulfilled", <<>>)
    /\ UNCHANGED <<osPlatform, build, pc, opts, reported, idx, output, messages,
                   log, treeVars, declVars>>

Next ==
    \/ Start
    \/ WriteHeader
    \/ SkipOutside
    \/ SkipExcluded
    \/ OutOfMemory
    \/ ProcessDeclaration
    \/ ProcessSource
    \/ Finish
    \/ SinkError
    \/ SinkClose

Spec == Init /\ [][Next]_vars

(***************************************************************************)
(* Properties of the runs of generate().                                   *)
(***************************************************************************)
\* the characters that separate the directories of a path on the platform
Separators(platform) == IF platform = "win32" THEN {"/", "\\"} ELSE {"/"}

\* the directories and the file name a path is made of
RECURSIVE Segments(_, _, _, _)
Segments(seps, s, i, cur) ==
    IF i > Len(s)
    THEN IF cur = <<>> THEN <<>> ELSE <<cur>>
    ELSE IF s[i] \in seps
         THEN (IF cur = <<>> THEN <<>> ELSE <<cur>>) \o Segments(seps, s, i + 1, <<>>)
         ELSE With(Append(cur, s[i]), LAMBDA next : Segments(seps, s, i + 1, next))

\* the parts with `sep` between them
RECURSIVE JoinParts(_, _)
JoinParts(parts, sep) ==
    IF Len(parts) = 0 THEN <<>>
    ELSE IF Len(parts) = 1 THEN parts[1]
         ELSE parts[1] \o <<sep>> \o JoinParts(Tail(parts), sep)

\* the pattern matches the path: minimatch returns and holds the path
Matches(platform, path, pattern) ==
    With(Minimatch(platform, path, pattern), LAMBDA r : r.returns /\ r.value)

\* the reported files a "Processing" message was sent for
ProcessedFiles ==
    {messages[m].file : m \in {n \in 1..Len(messages) : messages[n].kind = "Processing"}}

\* the reported files an "Excluding" message was sent for
ExcludingFiles ==
    {messages[m].file : m \in {n \in 1..Len(messages) : messages[n].kind = "Excluding"}}

\* the reported files something was written to the output for
WrittenFiles == {output[m].file : m \in 1..Len(output)} \ {0}

\* the file lies in the directory baseDir or below it: the directories of
\* baseDir are the first directories of the file's path
UnderBaseDir(fileName) ==
    LET dirs  == Segments(Separators(osPlatform), opts.baseDir, 1, <<>>)
        parts == Segments(Separators(osPlatform), fileName, 1, <<>>)
    IN  Len(parts) > Len(dirs) /\ SubSeq(parts, 1, Len(dirs)) = dirs

\* the path of a file under baseDir from baseDir on
BaseRelative(fileName) == Relative(osPlatform, opts.baseDir, fileName)

\* program.emit came back for reported file k and told of a failure
EmitReportedFailure(k) ==
    /\ k <= Len(log)
    /\ log[k].what = "emit"
    /\ log[k].emitReturned
    /\ log[k].emitOutput.emitSkipped \/ Len(log[k].emitOutput.diagnostics) > 0

\* C1: when program.emit is skipped for a source file or yields a diagnostic,
\* the promise is rejected with the aggregated error getError builds (an
\* EmitterError), and no file reported after it is processed: no "Processing"
\* message and no output for a later file.
C1_FailFast ==
    \A k \in 1..Len(reported) :
        EmitReportedFailure(k) =>
            /\ promise.state = "rejected"
            /\ promise.reason.name = "EmitterError"
            /\ \A j \in ProcessedFiles \cup WrittenFiles : j <= k
            /\ Len(log) = k

\* a.ts and a second file under baseDir are reported, nothing is excluded; the
\* emit of a.ts came back with a diagnostic, the promise is rejected with the
\* error of getError and the executor is over
C1_Witness ==
    /\ Len(reported) = 2
    /\ EmitReportedFailure(1)
    /\ Len(log[1].emitOutput.diagnostics) > 0
    /\ UnderBaseDir(reported[2])
    /\ opts.excludes = <<>>
    /\ promise.state = "rejected"
    /\ promise.reason.name = "EmitterError"
    /\ pc = "returned"

\* C2 as stated: on every way out of generate() (the executor returned, an
\* exception left it or the call, tsconfig.json was in error) every stream that
\* was opened was ended, once.
C2_SinkClosedOnEveryExit ==
    pc \in {"returned", "thrown", "configError", "thrownSync"} =>
        sink.opened <= 1 /\ sink.ended = sink.opened

\* C3: the promise is settled once: a settled promise never changes, it is
\* fulfilled only by the close event of the stream, and it is settled once the
\* run is over; a call that raises before it returns a promise has the
\* exception as its outcome and no promise to settle; a process that ends out
\* of memory signals nothing.
C3_SingleOutcome ==
    /\ [][/\ promise.state \in {"fulfilled", "rejected"} => promise' = promise
          /\ (promise'.state = "fulfilled" /\ promise.state # "fulfilled")
                => (sink'.closeEvent /\ ~sink.closeEvent)]_vars
    /\ [](pc \in {"thrown", "configError"} \/ (pc = "returned" /\ sink.closeEvent)
            => promise.state \in {"fulfilled", "rejected"})
    /\ [](pc = "thrownSync" => promise.state = "none")
    /\ [](pc = "died" => promise.state = "pending" /\ ~sink.closeEvent)

\* the promise was rejected for a failed emit, then for an error of the stream,
\* and the stream closed afterwards
C3_Witness ==
    /\ promise.state = "rejected" /\ promise.reason.name = "EmitterError"
    /\ sink.errorEvent /\ sink.closeEvent

\* C4: what is written for the bundled files is in the order the files are
\* reported in: nothing of a file comes after something of a later file.
C4_OutputInReportedOrder ==
    \A i, j \in 1..Len(output) :
        (i < j /\ output[i].file # 0 /\ output[j].file # 0)
            => output[i].file <= output[j].file

\* a.ts, whose declaration came through the callback of program.emit as three
\* writes, is followed by the declaration file a.d.ts
C4_Witness ==
    /\ Len(log) = 2
    /\ log[1].what = "emit" /\ log[1].handed
    /\ log[2].what = "declaration"
    /\ Cardinality({m \in 1..Len(output) : output[m].file = 1}) = 3
    /\ 2 \in WrittenFiles

\* C5 as stated: a reported file under baseDir whose base-relative path matches
\* a pattern of options.excludes gets no output and an "Excluding" message, and
\* goes neither to writeDeclaration nor to program.emit.
C5_ExcludedFilesSkipped ==
    \A k \in 1..Len(log) :
        (/\ UnderBaseDir(reported[k])
         /\ \E e \in 1..Len(opts.excludes) :
               Matches(osPlatform, BaseRelative(reported[k]), opts.excludes[e]))
        => /\ k \notin WrittenFiles
           /\ k \in ExcludingFiles
           /\ ~log[k].handed
           /\ log[k].what = "excluded"

\* C6 as stated: a reported file that is not under baseDir is not bundled: no
\* "Processing" message and no output for it.
C6_OutsideNeverBundled ==
    \A k \in 1..Len(log) :
        ~UnderBaseDir(reported[k]) =>
            k \notin ProcessedFiles /\ k \notin WrittenFiles

\* C7 as stated: the module ids of two different reported files differ, and no
\* module id holds a backslash.
C7_ModuleIdsInjective ==
    \A i, j \in 1..Len(log) :
        (log[i].handed /\ log[j].handed) =>
            /\ i # j => log[i].sourceModuleId # log[j].sourceModuleId
            /\ \A c \in 1..Len(log[i].sourceModuleId) : log[i].sourceModuleId[c] # "\\"

(***************************************************************************)
(* Specification SpecDecl: writeDeclaration applied to declaration files   *)
(* made of a few statements, given by [kind, spec].                        *)
(***************************************************************************)
Specifiers ==
    { <<".", "/", "a">>, <<".", ".", "/", "a">>, <<".", "/", "d", "/", "a">>,
      <<".", ".", "/", ".", ".", "/", "a">>, <<"a">>, <<"d", "/", "a">> }

StmtDescs ==
    [kind : {"import", "export", "require", "ambientModule"}, spec : Specifiers]
    \cup [kind : {"exportFunction", "declareFunction", "requireExpr",
                  "exportAssign", "importAlias", "ambientModuleExport"},
           spec : {<<>>}]

DeclInit ==
    /\ GenIdle /\ TreeIdle
    /\ \E p \in Platforms :
       \E f \in {File_a_dts, File_i_x_dts} :
       \E optionsIndent \in IndentInputs :
          dIn = [platform |-> p, fileName |-> AbsPath(p, f),
                 eol |-> OsEol(p),
                 indent |-> IF optionsIndent = <<>> THEN <<"\t">> ELSE optionsIndent,
                 stmts |-> <<>>]
    /\ dOut = [done |-> FALSE, result |-> <<>>]

\* the file has one more top-level statement
DeclAddStmt ==
    /\ ~dOut.done
    /\ Len(dIn.stmts) < MaxStmts
    /\ \E desc \in StmtDescs : dIn' = [dIn EXCEPT !.stmts = Append(@, desc)]
    /\ UNCHANGED <<dOut, genVars, treeVars>>

\* writeDeclaration(declarationFile)
DeclWrite ==
    /\ ~dOut.done
    /\ LET baseDir == Resolve(dIn.platform, <<AbsPath(dIn.platform, BaseDirChars)>>)
           fmt     == [eol |-> dIn.eol, lineStartEol |-> dIn.eol, indent |-> dIn.indent]
       IN  dOut' = [done |-> TRUE,
                    result |-> writeDeclaration(dIn.platform, PackageName, baseDir, fmt,
                                  DeclFile(dIn.fileName, dIn.stmts, dIn.eol))]
    /\ UNCHANGED <<dIn, genVars, treeVars>>

DeclNext == DeclAddStmt \/ DeclWrite

SpecDecl == DeclInit /\ [][DeclNext]_vars

\* the module id a relative specifier names when it is read from the directory
\* of the module `mid`: "." stays, ".." goes up one directory, a name goes down
RECURSIVE WalkSpecifier(_, _, _)
WalkSpecifier(dir, parts, k) ==
    IF k > Len(parts) THEN dir
    ELSE IF parts[k] = <<".">> THEN WalkSpecifier(dir, parts, k + 1)
         ELSE IF parts[k] = <<".", ".">>
              THEN IF dir # <<>> /\ dir[Len(dir)] # <<".", ".">>
                   THEN WalkSpecifier(SubSeq(dir, 1, Len(dir) - 1), parts, k + 1)
                   ELSE WalkSpecifier(Append(dir, parts[k]), parts, k + 1)
              ELSE WalkSpecifier(Append(dir, parts[k]), parts, k + 1)

TargetModuleId(mid, spec) ==
    LET midParts == Segments({"/"}, mid, 1, <<>>)
        dir      == SubSeq(midParts, 1, Len(midParts) - 1)
        walked   == WalkSpecifier(dir, Segments({"/"}, spec, 1, <<>>), 1)
    IN  IF walked = <<>> THEN <<".">> ELSE JoinParts(walked, "/")

\* the text a statement is to have inside the module block of `mid`
ExpectedStmt(desc, mid) ==
    LET target == IF CharAt0Is(desc.spec, ".")
                  THEN TargetModuleId(mid, desc.spec) ELSE desc.spec
    IN  CASE desc.kind = "import" ->
               <<"import", " { f }", " from", " '">> \o target \o <<"'", ";">>
          [] desc.kind = "export" ->
               <<"export", " *", " from", " '">> \o target \o <<"'", ";">>
          [] desc.kind = "require" ->
               IF CharAt0Is(desc.spec, ".")
               THEN <<"import", " x", " =", " require('">> \o target \o <<"')", ";">>
               ELSE RequireStmt(desc.spec).text
          [] desc.kind = "ambientModule" ->
               <<" module", " '">> \o desc.spec \o <<"'", " { }">>
          [] desc.kind = "exportFunction" -> <<"export", " function g(): void;">>
          [] desc.kind = "declareFunction" -> <<" function f(): void;">>
          [] desc.kind = "requireExpr" -> RequireExprStmt.text
          [] desc.kind = "exportAssign" -> <<"export", " =", " x", ";">>
          [] desc.kind = "importAlias" -> <<"import", " y", " =", " a.b", ";">>
          [] desc.kind = "ambientModuleExport" ->
               <<" module", " 'm'", " {", " export", " function h(): void;", " }">>

\* a statement that starts with the declare keyword loses the line break in
\* front of it together with the keyword
RECURSIVE ExpectedBody(_, _, _, _)
ExpectedBody(descs, k, mid, eol) ==
    IF k > Len(descs) THEN (IF descs = <<>> THEN <<>> ELSE eol)
    ELSE (IF k = 1 \/ descs[k].kind \in {"ambientModule", "declareFunction",
                                           "ambientModuleExport"}
          THEN <<>> ELSE eol)
         \o ExpectedStmt(descs[k], mid) \o ExpectedBody(descs, k + 1, mid, eol)

DeclModuleId == PackageName \o SliceFrom(Slice(dIn.fileName, 0, -5),
                                         Len(AbsPath(dIn.platform, BaseDirChars)))

\* C8: inside an external module with module id M, every specifier that starts
\* with "." of an import declaration, an export declaration or a require(...)
\* reference is written as the module id it names from the directory of M,
\* quoted for import and export and as require('...') for a reference, and a
\* specifier that does not start with "." is written unchanged.
C8_SpecifiersRewritten ==
    (dOut.done /\ dOut.result.external) =>
        /\ Len(dOut.result.writes) >= 2
        /\ dOut.result.writes[2] =
              Reindent(ExpectedBody(dIn.stmts, 1, DeclModuleId, dIn.eol), 1,
                       dIn.eol, dIn.indent)

\* the nodes the replacer of the rewrite answered a string for
Replaced == {i \in 1..Len(tFile.nodes) : tResult.replacer[i].tag = "str"}

\* C9: when the replacer answers a string R for exactly one node and null for
\* every other node, processTree returns the text before the node's start, then
\* R, then the text after the node's end; the replacer is called on the node,
\* on none of the nodes below it, and on every node outside its subtree.
C9_ReplacementLaw ==
    (tResult.done /\ Cardinality(Replaced) = 1) =>
        LET i    == CHOOSE j \in Replaced : TRUE
            node == tFile.nodes[i]
            R    == tResult.replacer[i].str
            seen == {tResult.out.visited[k] : k \in 1..Len(tResult.out.visited)}
        IN  /\ tResult.out.code = SubSeq(tFile.text, 1, node.pos) \o R
                                  \o SubSeq(tFile.text, node.end + 1, Len(tFile.text))
            /\ seen = {j \in 1..Len(tFile.nodes) :
                          j = i \/ ~IsAncestorOrSelf(tFile.nodes, i, j)}

\* a rewrite that replaced one node in the middle of the text, which has a
\* child and a later sibling, by a non-empty string
C9_Witness ==
    /\ tResult.done /\ Cardinality(Replaced) = 1
    /\ LET i == CHOOSE j \in Replaced : TRUE
       IN  /\ tResult.replacer[i].str = <<"R", "S">>
           /\ tFile.nodes[i].pos > 0
           /\ tFile.nodes[i].end > tFile.nodes[i].pos
           /\ tFile.nodes[i].end < Len(tFile.text)
           /\ \E c \in 1..Len(tFile.nodes) : tFile.nodes[c].parent = i
           /\ \E c \in (i + 1)..Len(tFile.nodes) :
                 tFile.nodes[c].parent = tFile.nodes[i].parent

\* C10: when the replacer answers null for every node, processTree returns
\* exactly the source text, and calls the replacer once on every node.
C10_IdentityLaw ==
    (tResult.done /\ Replaced = {}) =>
        /\ tResult.out.code = tFile.text
        /\ tResult.out.visited = [k \in 1..Len(tFile.nodes) |-> k]

\* a rewrite with the all-null replacer of a text of several characters whose
\* tree has nested nodes that leave gaps of text between them
C10_Witness ==
    /\ tResult.done /\ Replaced = {}
    /\ Len(tFile.text) >= 3
    /\ Len(tFile.nodes) >= 4
    /\ \E i \in 2..Len(tFile.nodes) :
          /\ tFile.nodes[i].parent > 1
          /\ tFile.nodes[i].pos > tFile.nodes[tFile.nodes[i].parent].pos
          /\ tFile.nodes[i].end < tFile.nodes[tFile.nodes[i].parent].end

\* the kinds of statement that make a file an external module: an exported
\* declaration, an import-equals declaration with require(...), an import
\* declaration, an export assignment, an export declaration
MarkerKinds ==
    {"exportFunction", "require", "requireExpr", "import", "exportAssign", "export"}

\* the first line of the block of the module written
OpeningLine ==
    dIn.eol \o <<"declare module '">> \o DeclModuleId \o <<"' {">>
    \o dIn.eol \o dIn.indent

\* C11: a declaration file is written inside a declare module '<id>' { ... }
\* block exactly when one of its top-level statements is an exported
\* declaration, an import-equals declaration with an external module reference,
\* an import declaration, an export assignment or an export declaration; every
\* other file, the file without statements too, is written as its own text in
\* one piece, with no block around it.
C11_WrappedIffExternal ==
    dOut.done =>
        IF \E k \in 1..Len(dIn.stmts) : dIn.stmts[k].kind \in MarkerKinds
        THEN /\ dOut.result.external
             /\ dOut.result.writes[1] = OpeningLine
             /\ Len(dOut.result.writes) = 3
             /\ dOut.result.writes[3] = dIn.eol \o <<"}">> \o dIn.eol
        ELSE /\ ~dOut.result.external
             /\ ~dOut.result.thrown
             /\ dOut.result.writes =
                   <<DeclFile(dIn.fileName, dIn.stmts, dIn.eol).text>>

====
